---- MODULE Spec2Model ----
(***************************************************************************)
(* A model of catbox_async_uploader.core.CatboxAsyncUploader.              *)
(*                                                                         *)
(* Python str and bytes values are sequences of one-character strings, so  *)
(* that startswith, split, join and strip are computed, not assumed.       *)
(* Optional and dynamically typed values are tagged records [t, v].        *)
(* One behaviour is one call on one client: the client keeps no state      *)
(* between calls except its userhash.                                      *)
(***************************************************************************)
EXTENDS Integers, Sequences, FiniteSets, TLC

\* ---------------------------------------------------------------- bounds
MaxFiles == 3
MaxChunkSize == 3
MaxShortcodeLen == 2
MaxAlbumFiles == 2

\* ------------------------------------------------------- python values
NoneV == [t |-> "None", v |-> <<>>]
Str(s) == [t |-> "str", v |-> s]
Bytes(b) == [t |-> "bytes", v |-> b]
BytesIO(b) == [t |-> "BytesIO", v |-> b]

file_url == <<"h","t","t","p","s",":","/","/","f","i","l","e","s",".","c","a","t","b","o","x",".","m","o","e">>
album_url == <<"h","t","t","p","s",":","/","/","c","a","t","b","o","x",".","m","o","e","/","c">>

\* str.startswith
StartsWith(s, p) == Len(p) <= Len(s) /\ SubSeq(s, 1, Len(p)) = p

\* index of the last occurrence of character c in s, 0 when absent
LastIndexOf(s, c) ==
  LET hits == {i \in 1..Len(s) : s[i] = c}
  IN IF hits = {} THEN 0 ELSE CHOOSE i \in hits : \A j \in hits : j <= i

\* s.split(c)[-1]
SplitLast(s, c) == SubSeq(s, LastIndexOf(s, c) + 1, Len(s))

\* s.replace(a, b) for single characters a and b
Replace(s, a, b) == [i \in 1..Len(s) |-> IF s[i] = a THEN b ELSE s[i]]

\* sep.join(xs) for a list xs of str
RECURSIVE Join(_, _)
Join(sep, xs) ==
  IF Len(xs) = 0 THEN <<>>
  ELSE IF Len(xs) = 1 THEN xs[1]
  ELSE xs[1] \o sep \o Join(sep, Tail(xs))

\* sep.join(s) for a str s: a str iterates as its characters
JoinChars(sep, s) == Join(sep, [i \in 1..Len(s) |-> <<s[i]>>])

Whitespace == {" ", "\n", "\t"}

\* str.strip()
Strip(s) ==
  LET keep == {i \in 1..Len(s) : s[i] \notin Whitespace}
  IN IF keep = {} THEN <<>>
     ELSE SubSeq(s, CHOOSE i \in keep : \A j \in keep : i <= j,
                    CHOOSE i \in keep : \A j \in keep : j <= i)

\* ----------------------------------------------------------- exceptions
NoErr == [cls |-> "", msg |-> ""]
Exc(c, m) == [cls |-> c, msg |-> m]

\* direct base classes of every exception class the client can meet
Bases(c) ==
  CASE c = "CatboxError" -> {"Exception"}
    [] c = "CatboxFileNotFoundError" -> {"CatboxError"}
    [] c = "CatboxTimeoutError" -> {"CatboxError"}
    [] c = "CatboxConnectionError" -> {"CatboxError"}
    [] c = "CatboxHTTPError" -> {"CatboxError"}
    [] c = "asyncio.TimeoutError" -> {"Exception"}
    [] c = "aiohttp.ClientError" -> {"Exception"}
    [] c = "aiohttp.ClientConnectionError" -> {"aiohttp.ClientError"}
    [] c = "aiohttp.ServerTimeoutError" -> {"aiohttp.ClientConnectionError", "asyncio.TimeoutError"}
    [] c = "aiohttp.ClientResponseError" -> {"aiohttp.ClientError"}
    [] c = "aiohttp.ClientPayloadError" -> {"aiohttp.ClientError"}
    [] c = "FileNotFoundError" -> {"Exception"}
    [] c = "ValueError" -> {"Exception"}
    [] OTHER -> {}

RECURSIVE IsInstance(_, _)
IsInstance(c, k) == c = k \/ \E b \in Bases(c) : IsInstance(b, k)

Handler(catch, c, m) == [catch |-> catch, cls |-> c, msg |-> m]

\* the except clauses of a try statement, tried in order; an exception no
\* clause matches leaves the try statement unchanged
RECURSIVE Handle(_, _)
Handle(handlers, e) ==
  IF Len(handlers) = 0 THEN e
  ELSE IF IsInstance(e.cls, handlers[1].catch)
       THEN Exc(handlers[1].cls, handlers[1].msg)
       ELSE Handle(Tail(handlers), e)

\* --------------------------------------------------------- form data
Absent == [t |-> "absent", v |-> <<>>]

NoForm ==
  [reqtype |-> "", userhash |-> Absent, time |-> "", short |-> Absent,
   title |-> Absent, desc |-> Absent, files |-> Absent,
   filename |-> Absent, content |-> Absent]

\* LitterboxDuration members and their wire values
Durations == {"H1", "H12", "H24", "H72", "W1"}

DurationValue(d) ==
  CASE d = "H1" -> "1h"
    [] d = "H12" -> "12h"
    [] d = "H24" -> "24h"
    [] d = "H72" -> "72h"
    [] d = "W1" -> "1w"

\* ------------------------------------------------------- the environment
\* what opening and reading a file path can do
FsOutcomes == {"ok", "FileNotFoundError"}

\* the bytes read from any existing file
FileBytes == <<"#">>

Statuses == {200, 204, 500}

Bodies == {<<"u", "1">>, <<" ", "u", "2", "\n">>}

TimeoutExcs == {"asyncio.TimeoutError", "aiohttp.ServerTimeoutError"}

TransportExcs ==
  TimeoutExcs \cup {"aiohttp.ClientConnectionError", "aiohttp.ClientResponseError",
                    "aiohttp.ClientPayloadError"}

\* what one posted request can end in: a response, or an exception raised
\* by the HTTP client while the request or the body is awaited
Outcomes ==
  {[kind |-> "response", status |-> s, body |-> b, exc |-> ""] :
      s \in Statuses, b \in Bodies}
  \cup {[kind |-> "exc", status |-> 0, body |-> <<>>, exc |-> c] : c \in TransportExcs}

NoOutcome == [kind |-> "", status |-> 0, body |-> <<>>, exc |-> ""]

\* ---------------------------------------------------- steps of a coroutine
Raise(e) == [kind |-> "raise", err |-> e, form |-> NoForm, val |-> NoneV]
Post(f) == [kind |-> "post", err |-> NoErr, form |-> f, val |-> NoneV]
Return(x) == [kind |-> "return", err |-> NoErr, form |-> NoForm, val |-> x]

\* a try statement around a step: only a raised exception meets the handlers
Try(handlers, step) ==
  IF step.kind = "raise" THEN Raise(Handle(handlers, step.err)) ELSE step

\* ------------------------------------------------------------- helpers
_check_userhash_value_skipped(uh) == NoErr

_check_userhash_value(uh) ==
  IF uh.t = "None" THEN Exc("CatboxError", "Userhash is required.") ELSE NoErr

_get_content(input, fs) ==
  IF input.t = "str"
  THEN IF fs = "ok" THEN [err |-> NoErr, content |-> Bytes(FileBytes)]
       ELSE [err |-> Exc(fs, ""), content |-> NoneV]
  ELSE IF input.t = "bytes" THEN [err |-> NoErr, content |-> input]
  ELSE [err |-> Exc("CatboxError", "Only file paths are supported in this version."),
        content |-> NoneV]

_prepare_content(input, file_name) ==
  IF file_name.t = "None"
  THEN IF input.t = "str"
       THEN [err |-> NoErr, content |-> input,
             file_name |-> Str(SplitLast(Replace(input.v, "\\", "/"), "/"))]
       ELSE IF input.t = "bytes"
       THEN [err |-> Exc("CatboxError", "Need to set file_name"),
             content |-> input, file_name |-> file_name]
       ELSE [err |-> NoErr, content |-> input, file_name |-> file_name]
  ELSE [err |-> NoErr, content |-> input, file_name |-> file_name]

get_shortcode_from_url_always_split(url) == SplitLast(url, "/")

get_shortcode_from_url(url) ==
  IF StartsWith(url, file_url) \/ StartsWith(url, album_url)
  THEN SplitLast(url, "/")
  ELSE url

\* ------------------------------------------------------------ upload_file
upload_file_handlers_no_timeout ==
  << Handler("aiohttp.ClientConnectionError", "CatboxConnectionError", "Failed to connect to Catbox."),
     Handler("aiohttp.ClientError", "CatboxError", "An error occurred") >>

upload_file_handlers ==
  << Handler("asyncio.TimeoutError", "CatboxTimeoutError", "Upload request timed out"),
     Handler("aiohttp.ClientConnectionError", "CatboxConnectionError", "Failed to connect to Catbox."),
     Handler("aiohttp.ClientError", "CatboxError", "An error occurred") >>

\* upload_file up to the point where the request is posted
upload_file_start(uh, input, file_name, fs) ==
  LET chk == _check_userhash_value(uh)
      prep == _prepare_content(input, file_name)
      got == _get_content(prep.content, fs)
  IN Try(upload_file_handlers,
         IF chk # NoErr THEN Raise(chk)
         ELSE IF prep.err # NoErr THEN Raise(prep.err)
         ELSE IF got.err # NoErr THEN Raise(got.err)
         ELSE Post([NoForm EXCEPT !.reqtype = "fileupload", !.userhash = uh,
                                  !.filename = prep.file_name,
                                  !.content = got.content]))

\* upload_file from the outcome of the posted request
upload_file_finish(o) ==
  Try(upload_file_handlers,
      IF o.kind = "exc" THEN Raise(Exc(o.exc, ""))
      ELSE IF o.status # 200
      THEN Raise(Exc("CatboxError", "Failed to upload file to Catbox."))
      ELSE Return(Str(Strip(o.body))))

\* ---------------------------------------------------- upload_to_litterbox
upload_to_litterbox_handlers ==
  << Handler("asyncio.TimeoutError", "CatboxTimeoutError", "Upload to Litterbox timed out"),
     Handler("aiohttp.ClientConnectionError", "CatboxConnectionError",
             "Failed to connect to Litterbox. The server might be down."),
     Handler("aiohttp.ClientResponseError", "CatboxHTTPError", "HTTP error occurred"),
     Handler("aiohttp.ClientError", "CatboxError", "An error occurred") >>

upload_to_litterbox_start(input, file_name, duration, fs) ==
  LET got == _get_content(input, fs)
  IN Try(upload_to_litterbox_handlers,
         IF got.err # NoErr THEN Raise(got.err)
         ELSE Post([NoForm EXCEPT !.reqtype = "fileupload",
                                  !.time = DurationValue(duration),
                                  !.filename = file_name,
                                  !.content = got.content]))

upload_to_litterbox_finish(o) ==
  Try(upload_to_litterbox_handlers,
      IF o.kind = "exc" THEN Raise(Exc(o.exc, ""))
      ELSE IF o.status # 200
      THEN Raise(Exc("Exception", "Failed to upload file to Catbox."))
      ELSE Return(Str(Strip(Strip(o.body)))))

\* ------------------------------------------------------ album management
delete_files_handlers ==
  << Handler("aiohttp.ClientError", "CatboxError", "Failed to delete files") >>

create_album_handlers ==
  << Handler("aiohttp.ClientError", "CatboxError", "Failed to create album") >>

edit_album_handlers ==
  << Handler("aiohttp.ClientError", "CatboxError", "Failed to edit album") >>

delete_album_handlers ==
  << Handler("aiohttp.ClientError", "CatboxError", "Failed to delete album") >>

\* the shortcodes of a list of member files
Shortcodes(files) == [i \in 1..Len(files) |-> get_shortcode_from_url(files[i])]

\* the `files` field of edit_album
edit_album_files(files) == Join(<<" ">>, Shortcodes(files))

\* the `files` field of create_album: the joined string is joined once more
create_album_files(files) == JoinChars(<<" ">>, Join(<<" ">>, Shortcodes(files)))

\* the `files` field of delete_files
delete_files_files(files) == Join(<<" ">>, files)

delete_files_start(uh, files) ==
  LET chk == _check_userhash_value(uh)
  IN Try(delete_files_handlers,
         IF chk # NoErr THEN Raise(chk)
         ELSE Post([NoForm EXCEPT !.reqtype = "deletefiles", !.userhash = uh,
                                  !.files = Str(delete_files_files(files))]))

create_album_start(uh, files, title, description) ==
  LET chk == _check_userhash_value(uh)
  IN Try(create_album_handlers,
         IF chk # NoErr THEN Raise(chk)
         ELSE Post([NoForm EXCEPT !.reqtype = "createalbum", !.userhash = uh,
                                  !.title = title, !.desc = description,
                                  !.files = Str(create_album_files(files))]))

edit_album_start(uh, shortcode, files, title, description) ==
  LET chk == _check_userhash_value(uh)
  IN Try(edit_album_handlers,
         IF chk # NoErr THEN Raise(chk)
         ELSE Post([NoForm EXCEPT !.reqtype = "editalbum", !.userhash = uh,
                                  !.short = shortcode,
                                  !.title = title, !.desc = description,
                                  !.files = Str(edit_album_files(files))]))

delete_album_start(uh, shortcode) ==
  LET chk == _check_userhash_value(uh)
  IN Try(delete_album_handlers,
         IF chk # NoErr THEN Raise(chk)
         ELSE Post([NoForm EXCEPT !.reqtype = "deletealbum", !.userhash = uh,
                                  !.short = shortcode]))

\* response.raise_for_status(): a status of 400 or more raises
raise_for_status(o) ==
  IF o.status >= 400 THEN Exc("aiohttp.ClientResponseError", "") ELSE NoErr

\* the operations that end in raise_for_status() and return nothing
status_only_finish(handlers, o) ==
  Try(handlers,
      IF o.kind = "exc" THEN Raise(Exc(o.exc, ""))
      ELSE IF raise_for_status(o) # NoErr THEN Raise(raise_for_status(o))
      ELSE Return(NoneV))

delete_files_finish(o) == status_only_finish(delete_files_handlers, o)

edit_album_finish(o) == status_only_finish(edit_album_handlers, o)

delete_album_finish(o) == status_only_finish(delete_album_handlers, o)

create_album_finish(o) ==
  Try(create_album_handlers,
      IF o.kind = "exc" THEN Raise(Exc(o.exc, ""))
      ELSE IF raise_for_status(o) # NoErr THEN Raise(raise_for_status(o))
      ELSE Return(Str(Strip(o.body))))

\* ------------------------------------------------------------ album upload
upload_album_handlers ==
  << Handler("asyncio.TimeoutError", "CatboxTimeoutError", "Album upload timed out"),
     Handler("aiohttp.ClientConnectionError", "CatboxConnectionError",
             "Failed to connect to Catbox. The server might be down."),
     Handler("aiohttp.ClientResponseError", "CatboxHTTPError", "HTTP error occurred"),
     Handler("aiohttp.ClientError", "CatboxError", "An error occurred") >>

\* the elements of a finite set of integers in increasing order
RECURSIVE Sorted(_)
Sorted(S) ==
  IF S = {} THEN <<>>
  ELSE LET m == CHOOSE x \in S : \A y \in S : x <= y
       IN <<m>> \o Sorted(S \ {m})

\* list(range(0, n, step)) for a step that is not zero
RangeFrom0(n, step) ==
  IF step > 0 THEN Sorted({i \in 0..(n - 1) : i % step = 0}) ELSE <<>>

\* the positions (from 1) of the elements of xs[a:b], for 0 <= a <= b
SlicePositions(n, a, b) ==
  LET hi == IF b < n THEN b ELSE n
  IN [j \in 1..(IF hi > a THEN hi - a ELSE 0) |-> a + j]

\* the chunks of a list of n paths, each chunk as the positions of its paths
Chunks(n, chunk_size) ==
  LET starts == RangeFrom0(n, chunk_size)
  IN [k \in 1..Len(starts) |-> SlicePositions(n, starts[k], starts[k] + chunk_size)]

\* ------------------------------------------------------------ the inputs
SeqsUpTo(S, n) == UNION {[1..k -> S] : k \in 0..n}

Userhashes == {NoneV, Str(<<"k">>)}

\* file_path_or_bytes of a single upload
Inputs ==
  {Str(<<"d", "/", "a">>), Str(<<"d", "\\", "b">>), Bytes(<<"x">>), BytesIO(<<"x">>)}

FileNames == {NoneV, Str(<<"n">>)}

\* members of the list given to an album upload (file_paths: list[str])
AlbumInputs == {Str(<<"d", "/", "a">>)}

ChunkSizes == (-1)..MaxChunkSize

\* members of the list given to create_album and edit_album
MemberFiles ==
  {file_url \o <<"/", "a", "b">>, album_url \o <<"/", "x">>, <<"c", "d">>, <<>>}

\* file names given to delete_files
StoredFiles == {<<"a">>, <<"b", "c">>}

Titles == {Str(<<"T">>)}

Descriptions == {Str(<<>>), Str(<<"D">>)}

AlbumShortcodes == {Str(<<"x", "y">>)}

UrlPrefixes ==
  {<<>>, file_url, album_url, file_url \o <<"/">>, album_url \o <<"/">>,
   SubSeq(file_url, 1, Len(file_url) - 1), <<"h", "t", "t", "p", ":", "/", "/", "e">>}

UrlTails == SeqsUpTo({"a", "b", "/"}, MaxShortcodeLen)

Urls == {p \o t : p \in UrlPrefixes, t \in UrlTails}

\* ------------------------------------------------------------- the state
VARIABLES userhash, op, args, pc, ret, err, response, requests,
          chunks, index, members, gather_exc, uploaded_links, sleeps

vars == <<userhash, op, args, pc, ret, err, response, requests,
          chunks, index, members, gather_exc, uploaded_links, sleeps>>

album_vars == <<chunks, index, members, gather_exc, uploaded_links, sleeps>>

NoArgs ==
  [input |-> NoneV, file_name |-> NoneV, duration |-> "", files |-> <<>>,
   file_paths |-> <<>>, chunk_size |-> 0, shortcode |-> NoneV,
   title |-> NoneV, desc |-> NoneV, url |-> <<>>]

\* the value of a call that returned a list: the list is uploaded_links
ListV == [t |-> "list", v |-> <<>>]

Member(st, result, e) == [st |-> st, result |-> result, err |-> e]

Init ==
  /\ userhash \in Userhashes
  /\ op = ""
  /\ args = NoArgs
  /\ pc = "idle"
  /\ ret = NoneV
  /\ err = NoErr
  /\ response = NoOutcome
  /\ requests = {}
  /\ chunks = <<>>
  /\ index = 0
  /\ members = <<>>
  /\ gather_exc = NoErr
  /\ uploaded_links = <<>>
  /\ sleeps = 0

\* a call of a single-request operation, up to its first suspension
Begin(name, a, step) ==
  /\ pc = "idle"
  /\ op' = name
  /\ args' = a
  /\ IF step.kind = "raise"
     THEN pc' = "raised" /\ err' = step.err /\ requests' = requests
     ELSE pc' = "posted" /\ err' = err /\ requests' = requests \cup {step.form}
  /\ UNCHANGED <<userhash, ret, response, album_vars>>

UploadFile ==
  \E input \in Inputs, name \in FileNames, fs \in FsOutcomes :
     Begin("upload_file", [NoArgs EXCEPT !.input = input, !.file_name = name],
           upload_file_start(userhash, input, name, fs))

UploadToLitterbox ==
  \E input \in Inputs, name \in FileNames, d \in Durations, fs \in FsOutcomes :
     Begin("upload_to_litterbox",
           [NoArgs EXCEPT !.input = input, !.file_name = name, !.duration = d],
           upload_to_litterbox_start(input, name, d, fs))

DeleteFiles ==
  \E files \in SeqsUpTo(StoredFiles, MaxAlbumFiles) :
     Begin("delete_files", [NoArgs EXCEPT !.files = files],
           delete_files_start(userhash, files))

CreateAlbum ==
  \E files \in SeqsUpTo(MemberFiles, MaxAlbumFiles), t \in Titles, d \in Descriptions :
     Begin("create_album", [NoArgs EXCEPT !.files = files, !.title = t, !.desc = d],
           create_album_start(userhash, files, t, d))

EditAlbum ==
  \E sc \in AlbumShortcodes, files \in SeqsUpTo(MemberFiles, MaxAlbumFiles),
     t \in Titles, d \in Descriptions :
     Begin("edit_album",
           [NoArgs EXCEPT !.shortcode = sc, !.files = files, !.title = t, !.desc = d],
           edit_album_start(userhash, sc, files, t, d))

DeleteAlbum ==
  \E sc \in AlbumShortcodes :
     Begin("delete_album", [NoArgs EXCEPT !.shortcode = sc],
           delete_album_start(userhash, sc))

GetShortcodeFromUrl ==
  \E url \in Urls :
     /\ pc = "idle"
     /\ op' = "get_shortcode_from_url"
     /\ args' = [NoArgs EXCEPT !.url = url]
     /\ ret' = Str(get_shortcode_from_url(url))
     /\ pc' = "returned"
     /\ UNCHANGED <<userhash, err, response, requests, album_vars>>

\* the rest of a single-request operation, from the outcome of its request
Finish(name, o) ==
  CASE name = "upload_file" -> upload_file_finish(o)
    [] name = "upload_to_litterbox" -> upload_to_litterbox_finish(o)
    [] name = "delete_files" -> delete_files_finish(o)
    [] name = "create_album" -> create_album_finish(o)
    [] name = "edit_album" -> edit_album_finish(o)
    [] name = "delete_album" -> delete_album_finish(o)

Respond ==
  \E o \in Outcomes :
     LET step == Finish(op, o)
     IN /\ pc = "posted"
        /\ response' = o
        /\ IF step.kind = "return"
           THEN pc' = "returned" /\ ret' = step.val /\ err' = err
           ELSE pc' = "raised" /\ err' = step.err /\ ret' = ret
        /\ UNCHANGED <<userhash, op, args, requests, album_vars>>

\* ------------------------------------------------ album upload: the state
Range(f) == {f[i] : i \in 1..Len(f)}

IsAlbumOp == op \in {"upload_album", "upload_album_to_litterbox"}

\* asyncio.gather(*tasks): one task per path of the chunk, no request posted yet
gather_create(ms, chunk) ==
  [i \in 1..Len(ms) |-> IF i \in Range(chunk) THEN Member("pending", <<>>, NoErr) ELSE ms[i]]

gather_done_first_completed(chunk) ==
  \E i \in Range(chunk) : members[i].st = "done"

\* the gather future resolves once every task of the chunk has returned
gather_done(chunk) ==
  \A i \in Range(chunk) : members[i].st = "done"

gather_results_reversed(chunk) ==
  [j \in 1..Len(chunk) |-> members[chunk[Len(chunk) + 1 - j]].result]

\* the results of gather: one per task, in the order the tasks were given
gather_results(chunk) ==
  [j \in 1..Len(chunk) |-> members[chunk[j]].result]

\* the first exception of a task becomes the exception of the gather future
gather_set_exception(e) == IF gather_exc = NoErr THEN e ELSE gather_exc

\* upload_album / upload_album_to_litterbox up to the first await
AlbumBegin(name, paths, chunk_size, d) ==
  LET n == Len(paths)
      ch == Chunks(n, chunk_size)
      blank == [i \in 1..n |-> Member("notcreated", <<>>, NoErr)]
  IN /\ pc = "idle"
     /\ op' = name
     /\ args' = [NoArgs EXCEPT !.file_paths = paths, !.chunk_size = chunk_size,
                               !.duration = d]
     /\ IF chunk_size = 0
        THEN /\ pc' = "raised"
             /\ err' = Handle(upload_album_handlers,
                              Exc("ValueError", "range() arg 3 must not be zero"))
             /\ UNCHANGED <<ret, chunks, index, members>>
        ELSE IF Len(ch) = 0
        THEN /\ pc' = "returned"
             /\ ret' = ListV
             /\ chunks' = ch
             /\ members' = blank
             /\ UNCHANGED <<err, index>>
        ELSE /\ pc' = "gathering"
             /\ chunks' = ch
             /\ index' = 1
             /\ members' = gather_create(blank, ch[1])
             /\ UNCHANGED <<ret, err>>
     /\ UNCHANGED <<userhash, response, requests, gather_exc, uploaded_links, sleeps>>

UploadAlbum ==
  \E paths \in SeqsUpTo(AlbumInputs, MaxFiles), cs \in ChunkSizes :
     AlbumBegin("upload_album", paths, cs, "")

UploadAlbumToLitterbox ==
  \E paths \in SeqsUpTo(AlbumInputs, MaxFiles), cs \in ChunkSizes :
     AlbumBegin("upload_album_to_litterbox", paths, cs, "H1")

\* the member coroutine of position i, up to the point where it posts
member_start(i, fs) ==
  IF op = "upload_album"
  THEN upload_file_start(userhash, args.file_paths[i], NoneV, fs)
  ELSE upload_to_litterbox_start(args.file_paths[i], NoneV, args.duration, fs)

member_finish(o) ==
  IF op = "upload_album" THEN upload_file_finish(o) ELSE upload_to_litterbox_finish(o)

\* a task of the gather runs up to the point where its request is posted
MemberStart ==
  \E i \in 1..Len(members), fs \in FsOutcomes :
     LET step == member_start(i, fs)
     IN /\ IsAlbumOp
        /\ members[i].st = "pending"
        /\ IF step.kind = "raise"
           THEN /\ members' = [members EXCEPT ![i] = Member("failed", <<>>, step.err)]
                /\ gather_exc' = gather_set_exception(step.err)
                /\ requests' = requests
           ELSE /\ members' = [members EXCEPT ![i] = Member("posted", <<>>, NoErr)]
                /\ gather_exc' = gather_exc
                /\ requests' = requests \cup {step.form}
        /\ UNCHANGED <<userhash, op, args, pc, ret, err, response,
                       chunks, index, uploaded_links, sleeps>>

\* the request of a task ends and the task with it
MemberFinish ==
  \E i \in 1..Len(members), o \in Outcomes :
     LET step == member_finish(o)
     IN /\ IsAlbumOp
        /\ members[i].st = "posted"
        /\ IF step.kind = "raise"
           THEN /\ members' = [members EXCEPT ![i] = Member("failed", <<>>, step.err)]
                /\ gather_exc' = gather_set_exception(step.err)
           ELSE /\ members' = [members EXCEPT ![i] = Member("done", step.val.v, NoErr)]
                /\ gather_exc' = gather_exc
        /\ UNCHANGED <<userhash, op, args, pc, ret, err, response, requests,
                       chunks, index, uploaded_links, sleeps>>

\* await asyncio.gather(...) returns: the links are appended, the sleep begins
GatherReturn ==
  /\ pc = "gathering"
  /\ gather_done(chunks[index])
  /\ uploaded_links' = uploaded_links \o gather_results(chunks[index])
  /\ pc' = "sleeping"
  /\ UNCHANGED <<userhash, op, args, ret, err, response, requests,
                 chunks, index, members, gather_exc, sleeps>>

\* await asyncio.gather(...) raises the first exception of a task; the other
\* tasks of the chunk are neither awaited nor cancelled
GatherRaise ==
  /\ pc = "gathering"
  /\ gather_exc # NoErr
  /\ pc' = "raised"
  /\ err' = Handle(upload_album_handlers, gather_exc)
  /\ UNCHANGED <<userhash, op, args, ret, response, requests, album_vars>>

\* await asyncio.sleep(time_sleep) returns: the next chunk, or the result
SleepDone ==
  /\ pc = "sleeping"
  /\ sleeps' = sleeps + 1
  /\ IF index < Len(chunks)
     THEN /\ index' = index + 1
          /\ members' = gather_create(members, chunks[index + 1])
          /\ pc' = "gathering"
          /\ ret' = ret
     ELSE /\ pc' = "returned"
          /\ ret' = ListV
          /\ UNCHANGED <<index, members>>
  /\ UNCHANGED <<userhash, op, args, err, response, requests,
                 chunks, gather_exc, uploaded_links>>

Next ==
  \/ UploadFile
  \/ UploadToLitterbox
  \/ DeleteFiles
  \/ CreateAlbum
  \/ EditAlbum
  \/ DeleteAlbum
  \/ GetShortcodeFromUrl
  \/ Respond
  \/ UploadAlbum
  \/ UploadAlbumToLitterbox
  \/ MemberStart
  \/ MemberFinish
  \/ GatherReturn
  \/ GatherRaise
  \/ SleepDone

Spec == Init /\ [][Next]_vars

\* ------------------------------------------------------------ properties
InFlight == {i \in 1..Len(members) : members[i].st \in {"pending", "posted"}}

Failed == {i \in 1..Len(members) : members[i].st = "failed"}

Started == {i \in 1..Len(members) : members[i].st # "notcreated"}

IsPrefixOf(p, s) == Len(p) <= Len(s) /\ \A i \in 1..Len(p) : s[i] = p[i]

\* C1: a successful upload_album of N paths with chunk size C >= 1 has
\* processed exactly ceil(N/C) chunks and returns exactly N links, the i-th
\* of them the link produced by the upload of the i-th path, whatever the
\* order in which the uploads of a chunk completed.
C1_AlbumLinksInOrder ==
  (op = "upload_album" /\ pc = "returned" /\ args.chunk_size >= 1) =>
     LET n == Len(args.file_paths)
         c == args.chunk_size
     IN /\ index = (n + c - 1) \div c
        /\ sleeps = (n + c - 1) \div c
        /\ ret = ListV
        /\ Len(uploaded_links) = n
        /\ \A i \in 1..n : /\ members[i].st = "done"
                           /\ uploaded_links[i] = members[i].result

C1_Witness ==
  /\ op = "upload_album"
  /\ pc = "returned"
  /\ Len(args.file_paths) = 3
  /\ args.chunk_size = 2
  /\ index = 2
  /\ Len(uploaded_links) = 3
  /\ uploaded_links[1] # uploaded_links[2]

TokenOps == {"upload_file", "delete_files", "create_album", "edit_album", "delete_album"}

\* C2: a token-requiring operation called on a client without userhash
\* fails with CatboxError("Userhash is required.") and no HTTP request has
\* been issued, whatever its other arguments.
C2_NoUserhashNoRequest ==
  (userhash.t = "None" /\ op \in TokenOps) =>
     /\ pc = "raised"
     /\ err = Exc("CatboxError", "Userhash is required.")
     /\ requests = {}

C2_Witness ==
  /\ userhash.t = "None"
  /\ op = "create_album"
  /\ Len(args.files) = 2
  /\ pc = "raised"
  /\ err.cls = "CatboxError"

\* C3: once a member upload of chunk k has failed, the album upload never
\* returns a list; when it fails it fails with the unchanged error of a failed
\* member of chunk k (the only one, when only one failed), and no upload of a
\* later chunk is ever started.
C3_MemberErrorPropagates ==
  (IsAlbumOp /\ Failed # {}) =>
     /\ pc \in {"gathering", "raised"}
     /\ ret = NoneV
     /\ Failed \subseteq Range(chunks[index])
     /\ pc = "raised" => \E i \in Failed : members[i].err = err
     /\ (pc = "raised" /\ Cardinality(Failed) = 1) => \A i \in Failed : members[i].err = err
     /\ \A k \in (index + 1)..Len(chunks) :
           \A i \in Range(chunks[k]) : members[i].st = "notcreated"

C3_Witness ==
  /\ op = "upload_album"
  /\ pc = "raised"
  /\ Len(chunks) = 2
  /\ index = 1
  /\ Cardinality(Failed) = 1
  /\ err = Exc("CatboxTimeoutError", "Upload request timed out")

UploadOps == {"upload_file", "upload_to_litterbox"}

\* C4: for upload_file and upload_to_litterbox a response whose status is not
\* 200 makes the call fail with an error of the library's taxonomy
\* (CatboxError); it never returns a value.
C4_Non200IsCatboxError ==
  (op \in UploadOps /\ response.kind = "response" /\ response.status # 200) =>
     /\ pc = "raised"
     /\ IsInstance(err.cls, "CatboxError")

TimeoutOps == {"upload_file", "upload_to_litterbox", "delete_files"}

\* C5: for every operation that accepts a timeout, a request that exceeds it
\* makes the operation fail with CatboxTimeoutError, never with another error
\* type and never with a normal return.
C5_TimeoutIsTimeoutError ==
  /\ (op \in TimeoutOps /\ response.kind = "exc" /\ response.exc \in TimeoutExcs) =>
        (pc = "raised" /\ err.cls = "CatboxTimeoutError")
  /\ (IsAlbumOp /\ pc = "raised" /\ gather_exc.cls = "CatboxTimeoutError") =>
        err.cls = "CatboxTimeoutError"

\* C6: for upload_file and upload_to_litterbox a byte buffer without a file
\* name makes the call fail with CatboxError, and no HTTP request has been
\* issued when it fails.
C6_BytesNeedFileName ==
  (op \in UploadOps /\ args.input.t = "bytes" /\ args.file_name.t = "None") =>
     /\ pc = "raised"
     /\ IsInstance(err.cls, "CatboxError")
     /\ requests = {}

\* C7: the `files` field create_album submits is the shortcodes of the members
\* in input order separated by single spaces, the value edit_album submits for
\* the same list.
C7_CreateAlbumFilesField ==
  (op = "create_album" /\ userhash.t # "None") =>
     /\ requests # {}
     /\ \A f \in requests :
           f.files = Str(Join(<<" ">>, [i \in 1..Len(args.files) |->
                                           get_shortcode_from_url(args.files[i])]))

\* C8: get_shortcode_from_url returns a URL that starts with neither base URL
\* unchanged, and returns exactly the shortcode of a URL formed as a base URL,
\* '/' and a shortcode that contains no '/'.
C8_ShortcodeFromUrl ==
  (op = "get_shortcode_from_url" /\ pc = "returned") =>
     /\ (~IsPrefixOf(file_url, args.url) /\ ~IsPrefixOf(album_url, args.url)) =>
           ret = Str(args.url)
     /\ \A base \in {file_url, album_url}, sc \in UrlTails :
           ("/" \notin Range(sc) /\ args.url = base \o <<"/">> \o sc) => ret = Str(sc)

C8_Witness ==
  /\ op = "get_shortcode_from_url"
  /\ pc = "returned"
  /\ args.url = album_url \o <<"/", "a", "b">>
  /\ ret = Str(<<"a", "b">>)

\* C9: within an album upload the chunks run one after another: all uploads in
\* flight belong to the current chunk, so at most chunk_size are in flight, and
\* an upload of chunk k+1 has started only if every upload of chunk k has
\* completed and k inter-chunk pauses have elapsed.
C9_ChunksSequential ==
  IsAlbumOp =>
     /\ \A i \in InFlight : i \in Range(chunks[index])
     /\ Cardinality(InFlight) <= args.chunk_size \/ InFlight = {}
     /\ \A k \in 1..Len(chunks) :
           (Started \cap Range(chunks[k]) # {}) =>
              /\ k <= index
              /\ sleeps >= k - 1
              /\ \A j \in 1..(k - 1) :
                    \A i \in Range(chunks[j]) : members[i].st = "done"

C9_Witness ==
  /\ IsAlbumOp
  /\ pc = "gathering"
  /\ index = 2
  /\ sleeps = 1
  /\ \E i \in Range(chunks[2]) : members[i].st = "posted"

\* C10: once the album upload has raised the error of a failed member, no
\* sibling upload of the chunk still has a request in flight.
C10_NoSiblingInFlightAfterRaise ==
  (IsAlbumOp /\ pc = "raised") => \A i \in 1..Len(members) : members[i].st # "posted"

====
